---- MODULE Spec2Model ----
(***************************************************************************)
(* The insurance charges dashboard (streamlit_app.py).  The script is run  *)
(* top to bottom once at start-up and once more after every interaction    *)
(* with a sidebar widget.  A run rebuilds `data` from the cached CSV       *)
(* frames, filters it into `filtered_data`, computes the correlation       *)
(* matrix and adds the two derived columns to `filtered_data`.             *)
(*                                                                         *)
(* Numbers: ages, children and charges are integers; a bmi is held in      *)
(* tenths (185 is 18.5), so the bin edge 18.5 is 185 and a slider value n  *)
(* is compared as 10 * n.                                                  *)
(***************************************************************************)
EXTENDS Integers, Sequences, FiniteSets, TLC

VARIABLES
    data1, data2,             \* the frames load_data() returns (the cache)
    frames,                   \* the heap of DataFrame objects alive after the run
    data, filtered_data,      \* the script's names: references into frames
    selected_region,          \* multiselect "Filter by Region"
    smokers_checkbox,         \* checkbox "Include Smokers Only"
    nonsmokers_checkbox,      \* checkbox "Include Non-Smokers Only"
    include_smokers,          \* the script variables at the end of the run
    include_nonsmokers,
    bmi_range, age_range,     \* the two range sliders, <<lo, hi>>
    warning,                  \* st.warning was called in this run
    correlation_matrix,       \* the value computed on line 133
    written                   \* what st.write displayed on line 136

vars == <<data1, data2, frames, data, filtered_data, selected_region,
          smokers_checkbox, nonsmokers_checkbox, include_smokers,
          include_nonsmokers, bmi_range, age_range, warning,
          correlation_matrix, written>>

(***************************************************************************)
(* Bounds of the model.                                                    *)
(***************************************************************************)
MaxRows == 3

\* The rows a loaded CSV pair may contain: the insurance columns and, under
\* the same index, the two healthcare columns.  The values sit on and around
\* the edges of the bins and of the slider defaults.
Records ==
    { [age |-> 18, sex |-> "female", bmi |-> 185, children |-> 0, smoker |-> "no",
       region |-> "northeast", charges |-> 100,
       health_condition |-> "good", education |-> "college"],
      [age |-> 65, sex |-> "male", bmi |-> 305, children |-> 1, smoker |-> "yes",
       region |-> "southwest", charges |-> 400,
       health_condition |-> "poor", education |-> "school"],
      [age |-> 35, sex |-> "male", bmi |-> 249, children |-> 2, smoker |-> "no",
       region |-> "southwest", charges |-> 200,
       health_condition |-> "good", education |-> "school"],
      [age |-> 65, sex |-> "female", bmi |-> 299, children |-> 0, smoker |-> "yes",
       region |-> "northeast", charges |-> 300,
       health_condition |-> "poor", education |-> "college"] }

\* The values a user is taken to drag the sliders to.
BmiStops == {18, 24, 30, 31}
AgeStops == {18, 65}

(***************************************************************************)
(* DataFrames.  A frame is its column names and its rows in order; a row   *)
(* maps every column to a value and "index" to the row's index label.      *)
(***************************************************************************)
NaN == "NaN"

InsuranceColumns == {"age", "sex", "bmi", "children", "smoker", "region", "charges"}
HealthcareColumns == {"health_condition", "education"}

Min(S) == CHOOSE x \in S : \A y \in S : x <= y
Max(S) == CHOOSE x \in S : \A y \in S : x >= y

\* pd.read_csv: the named columns of the file's rows under a RangeIndex 0..n-1.
read_csv(file, columns) ==
    [columns |-> columns,
     rows |-> [i \in 1..Len(file) |->
                 [c \in columns \cup {"index"} |->
                     IF c = "index" THEN i - 1 ELSE file[i][c]]]]

\* series.unique()
Unique(df, c) == {df.rows[i][c] : i \in 1..Len(df.rows)}

\* df[name] = series: the series is aligned on the index, a row whose label the
\* series lacks gets NaN; an existing column is overwritten.
AssignSeries(df, name, series) ==
    [columns |-> df.columns \cup {name},
     rows |-> [i \in 1..Len(df.rows) |->
                 (name :> IF df.rows[i]["index"] \in DOMAIN series
                          THEN series[df.rows[i]["index"]]
                          ELSE NaN) @@ df.rows[i]]]

\* The series of a column keyed by index label.
SeriesOf(df, c) ==
    [l \in {df.rows[i]["index"] : i \in 1..Len(df.rows)} |->
        df.rows[CHOOSE i \in 1..Len(df.rows) : df.rows[i]["index"] = l][c]]

\* df[mask] with a boolean mask.  A mask is a boolean series over the frame's
\* index, held as the set of the labels where it is True.  The result is a new
\* frame holding the rows under those labels, in the frame's order.
BooleanIndexReversed(df, mask) ==
    LET kept == SelectSeq(df.rows, LAMBDA row : row["index"] \in mask)
    IN  [columns |-> df.columns,
         rows |-> [j \in 1..Len(kept) |-> kept[Len(kept) + 1 - j]]]

BooleanIndexShifted(df, mask) ==
    LET shifted == {df.rows[i]["index"] : i \in {k \in 1..Len(df.rows) :
                        k = 1 \/ df.rows[k - 1]["index"] \in mask}}
    IN  [columns |-> df.columns,
         rows |-> SelectSeq(df.rows, LAMBDA row : row["index"] \in shifted)]

BooleanIndex(df, mask) ==
    [columns |-> df.columns,
     rows |-> SelectSeq(df.rows, LAMBDA row : row["index"] \in mask)]

\* The labels of the rows of df that satisfy a condition on one column are
\* written {Label(df, i) : i \in {k \in Rows(df) : ...}}.
Rows(df) == 1..Len(df.rows)
Label(df, i) == df.rows[i]["index"]

(***************************************************************************)
(* Lines 24-26: data = data1.copy() plus the two columns of data2.         *)
(***************************************************************************)
MergedData(d1, d2) ==
    AssignSeries(AssignSeries(d1, "health_condition", SeriesOf(d2, "health_condition")),
                 "education", SeriesOf(d2, "education"))

(***************************************************************************)
(* Lines 40-41: the bounds of the sliders, int() of the column's extremes. *)
(***************************************************************************)
\* int(x) of a positive float held in tenths: truncation.
Truncate(tenths) == tenths \div 10

BmiSliderMaxCeil(df) == (Max(Unique(df, "bmi")) + 9) \div 10

BmiSliderMin(df) == Truncate(Min(Unique(df, "bmi")))
BmiSliderMax(df) == Truncate(Max(Unique(df, "bmi")))
AgeSliderMin(df) == Min(Unique(df, "age"))
AgeSliderMax(df) == Max(Unique(df, "age"))

BmiDefault == <<18, 30>>
AgeDefault == <<18, 60>>

\* st.slider raises when its default value lies outside [min_value, max_value],
\* so the script only gets past lines 40-41 with a dataset for which it does not.
SliderDefaultsValid(df) ==
    /\ BmiSliderMin(df) <= BmiDefault[1] /\ BmiDefault[2] <= BmiSliderMax(df)
    /\ AgeSliderMin(df) <= AgeDefault[1] /\ AgeDefault[2] <= AgeSliderMax(df)

(***************************************************************************)
(* Lines 44-60: the filters.  Every name = frame[mask] makes a new frame   *)
(* object; the heap h maps object references to frames.                    *)
(***************************************************************************)
RegionMaskEmptyIsAll(df, selected) ==
    {Label(df, i) : i \in {k \in Rows(df) :
        selected = {} \/ df.rows[k]["region"] \in selected}}

\* data["region"].isin(selected_region)
RegionMask(df, selected) ==
    {Label(df, i) : i \in {k \in Rows(df) : df.rows[k]["region"] \in selected}}

\* filtered_data["smoker"] == value
SmokerMask(df, value) ==
    {Label(df, i) : i \in {k \in Rows(df) : df.rows[k]["smoker"] = value}}

BmiMaskNoUpperBound(df, range) ==
    {Label(df, i) : i \in {k \in Rows(df) : df.rows[k]["bmi"] >= 10 * range[1]}}

\* (filtered_data['bmi'] >= bmi_range[0]) & (filtered_data['bmi'] <= bmi_range[1])
BmiMask(df, range) ==
    {Label(df, i) : i \in {k \in Rows(df) :
        df.rows[k]["bmi"] >= 10 * range[1] /\ df.rows[k]["bmi"] <= 10 * range[2]}}

\* (filtered_data["age"] >= age_range[0]) & (filtered_data["age"] <= age_range[1])
AgeMask(df, range) ==
    {Label(df, i) : i \in {k \in Rows(df) :
        df.rows[k]["age"] >= range[1] /\ df.rows[k]["age"] <= range[2]}}

NewRef(h) == Max(DOMAIN h) + 1

\* frame[mask]: the result is a new object, the indexed frame is left as it is.
Index(h, r, mask) ==
    [ref |-> NewRef(h), heap |-> h @@ (NewRef(h) :> BooleanIndex(h[r], mask))]

SmokerBranchFirstWins(smokers, nonsmokers) ==
    IF smokers THEN [warning |-> smokers /\ nonsmokers, include_smokers |-> TRUE,
                     keep |-> "yes"]
    ELSE IF nonsmokers THEN [warning |-> FALSE, include_smokers |-> FALSE, keep |-> "no"]
    ELSE [warning |-> FALSE, include_smokers |-> FALSE, keep |-> "all"]

\* Lines 48-54: which smoker filter the if/elif chain applies, whether it
\* warns, and the value it leaves in include_smokers.
SmokerBranch(smokers, nonsmokers) ==
    IF smokers /\ nonsmokers
    THEN [warning |-> TRUE, include_smokers |-> FALSE, keep |-> "all"]
    ELSE IF smokers
    THEN [warning |-> FALSE, include_smokers |-> TRUE, keep |-> "yes"]
    ELSE IF nonsmokers
    THEN [warning |-> FALSE, include_smokers |-> FALSE, keep |-> "no"]
    ELSE [warning |-> FALSE, include_smokers |-> FALSE, keep |-> "all"]

\* Lines 45-60 on the frame h[r]: the reference of the filtered frame and the
\* heap that holds it.
ApplyFilters(h, r, selected, smokers, nonsmokers, bmi, age) ==
    LET keep == SmokerBranch(smokers, nonsmokers).keep
        a == Index(h, r, RegionMask(h[r], selected))
        b == IF keep = "all" THEN a
             ELSE Index(a.heap, a.ref, SmokerMask(a.heap[a.ref], keep))
        c == Index(b.heap, b.ref, BmiMask(b.heap[b.ref], bmi))
    IN  Index(c.heap, c.ref, AgeMask(c.heap[c.ref], age))

\* The frame lines 45-60 make of the frame df.
Filtered(df, selected, smokers, nonsmokers, bmi, age) ==
    LET f == ApplyFilters(0 :> df, 0, selected, smokers, nonsmokers, bmi, age)
    IN  f.heap[f.ref]

(***************************************************************************)
(* Line 133: the correlation of the numeric columns.  A coefficient is     *)
(* NaN when the frame has fewer than two rows or one of its two columns is *)
(* constant; any other coefficient is a number, kept abstract: "1.0" on    *)
(* the diagonal, "r" elsewhere.                                            *)
(***************************************************************************)
Dtype(c) ==
    CASE c \in {"age", "children"} -> "int64"
      [] c \in {"bmi", "charges"} -> "float64"
      [] c \in {"BMI Category", "Age Group"} -> "category"
      [] OTHER -> "object"

select_dtypes(df, include) == {c \in df.columns : Dtype(c) \in include}

Corr(df, columns) ==
    [a \in columns, b \in columns |->
        IF \/ Len(df.rows) < 2
           \/ Cardinality(Unique(df, a)) < 2
           \/ Cardinality(Unique(df, b)) < 2
        THEN NaN
        ELSE IF a = b THEN "1.0" ELSE "r"]

HasNaN(matrix) == \E k \in DOMAIN matrix : matrix[k] = NaN

(***************************************************************************)
(* Lines 181-185 and 227-231: pd.cut with the default right=True and       *)
(* include_lowest=False: bin k is (bins[k], bins[k+1]], a value in no bin  *)
(* is NaN.                                                                 *)
(***************************************************************************)
Cut(x, bins, labels) ==
    IF \E k \in 1..Len(labels) : bins[k] < x /\ x <= bins[k + 1]
    THEN labels[CHOOSE k \in 1..Len(labels) : bins[k] < x /\ x <= bins[k + 1]]
    ELSE NaN

BmiBins == <<0, 185, 249, 299, 1000>>
BmiLabels == <<"Underweight", "Normal", "Overweight", "Obese">>
AgeBins == <<18, 35, 50, 65, 100>>
AgeLabels == <<"Young Adults (18-35)", "Middle-Aged (36-50)",
               "Older Adults (51-65)", "Seniors (65+)">>

\* pd.cut(frame[column], ...): the series of labels under the frame's index.
CutSeries(df, c, bins, labels) ==
    LET series == SeriesOf(df, c)
    IN  [l \in DOMAIN series |-> Cut(series[l], bins, labels)]

SetItemWriteThrough(h, r, name, series) ==
    [x \in DOMAIN h |-> AssignSeries(h[x], name, series)]

\* frame[name] = series on the object r of the heap.
SetItem(h, r, name, series) == [h EXCEPT ![r] = AssignSeries(@, name, series)]

(***************************************************************************)
(* One run of the script with the widgets at the given values.             *)
(***************************************************************************)
RunScript(d1, d2, selected, smokers, nonsmokers, bmi, age) ==
    LET h0 == 0 :> MergedData(d1, d2)
        branch == SmokerBranch(smokers, nonsmokers)
        f == ApplyFilters(h0, 0, selected, smokers, nonsmokers, bmi, age)
        matrix == Corr(f.heap[f.ref],
                       select_dtypes(f.heap[f.ref], {"float64", "int64"}))
        h1 == SetItem(f.heap, f.ref, "BMI Category",
                      CutSeries(f.heap[f.ref], "bmi", BmiBins, BmiLabels))
        h2 == SetItem(h1, f.ref, "Age Group",
                      CutSeries(h1[f.ref], "age", AgeBins, AgeLabels))
    IN  [frames |-> [r \in {0, f.ref} |-> h2[r]],
         data |-> 0,
         filtered_data |-> f.ref,
         include_smokers |-> branch.include_smokers,
         include_nonsmokers |-> nonsmokers,
         warning |-> branch.warning,
         correlation_matrix |-> matrix,
         written |-> matrix]

(***************************************************************************)
(* The state after a run: the widgets keep their values between runs, the  *)
(* rest is what the run computed.  The charts (lines 78-129, 138-178,      *)
(* 186-241) read filtered_data and the matrix and change neither.          *)
(***************************************************************************)
Datasets == UNION {[1..n -> Records] : n \in 1..MaxRows}

Init ==
    /\ \E file \in Datasets :
          /\ data1 = read_csv(file, InsuranceColumns)
          /\ data2 = read_csv(file, HealthcareColumns)
    /\ SliderDefaultsValid(MergedData(data1, data2))
    /\ selected_region = Unique(MergedData(data1, data2), "region")
    /\ smokers_checkbox = FALSE
    /\ nonsmokers_checkbox = FALSE
    /\ bmi_range = BmiDefault
    /\ age_range = AgeDefault
    /\ \E run \in {RunScript(data1, data2, selected_region, smokers_checkbox,
                              nonsmokers_checkbox, bmi_range, age_range)} :
           /\ frames = run.frames
           /\ data = run.data
           /\ filtered_data = run.filtered_data
           /\ include_smokers = run.include_smokers
           /\ include_nonsmokers = run.include_nonsmokers
           /\ warning = run.warning
           /\ correlation_matrix = run.correlation_matrix
           /\ written = run.written

\* The script is run again with the widgets at the given values.
Rerun(selected, smokers, nonsmokers, bmi, age) ==
    /\ selected_region' = selected
    /\ smokers_checkbox' = smokers
    /\ nonsmokers_checkbox' = nonsmokers
    /\ bmi_range' = bmi
    /\ age_range' = age
    /\ \E run \in {RunScript(data1, data2, selected, smokers, nonsmokers, bmi, age)} :
           /\ frames' = run.frames
           /\ data' = run.data
           /\ filtered_data' = run.filtered_data
           /\ include_smokers' = run.include_smokers
           /\ include_nonsmokers' = run.include_nonsmokers
           /\ warning' = run.warning
           /\ correlation_matrix' = run.correlation_matrix
           /\ written' = run.written
    /\ UNCHANGED <<data1, data2>>

\* Line 32: the user changes the multiselect; its options are the regions of data.
SelectRegion ==
    \E selected \in SUBSET Unique(frames[data], "region") :
        /\ selected # selected_region
        /\ Rerun(selected, smokers_checkbox, nonsmokers_checkbox, bmi_range, age_range)

\* Line 37: the user clicks "Include Smokers Only".
ToggleSmokers ==
    Rerun(selected_region, ~smokers_checkbox, nonsmokers_checkbox, bmi_range, age_range)

\* Line 38: the user clicks "Include Non-Smokers Only".
ToggleNonSmokers ==
    Rerun(selected_region, smokers_checkbox, ~nonsmokers_checkbox, bmi_range, age_range)

\* Line 40: the user drags the BMI slider inside its bounds.
SetBmiRange ==
    \E lo \in BmiStops, hi \in BmiStops :
        /\ BmiSliderMin(frames[data]) <= lo /\ lo <= hi /\ hi <= BmiSliderMax(frames[data])
        /\ <<lo, hi>> # bmi_range
        /\ Rerun(selected_region, smokers_checkbox, nonsmokers_checkbox, <<lo, hi>>, age_range)

\* Line 41: the user drags the age slider inside its bounds.
SetAgeRange ==
    \E lo \in AgeStops, hi \in AgeStops :
        /\ AgeSliderMin(frames[data]) <= lo /\ lo <= hi /\ hi <= AgeSliderMax(frames[data])
        /\ <<lo, hi>> # age_range
        /\ Rerun(selected_region, smokers_checkbox, nonsmokers_checkbox, bmi_range, <<lo, hi>>)

Next ==
    \/ SelectRegion
    \/ ToggleSmokers
    \/ ToggleNonSmokers
    \/ SetBmiRange
    \/ SetAgeRange

Spec == Init /\ [][Next]_vars

(***************************************************************************)
(* The claims.                                                             *)
(***************************************************************************)
Data == frames[data]
View == frames[filtered_data]

SmokersOnly == smokers_checkbox /\ ~nonsmokers_checkbox
NonSmokersOnly == nonsmokers_checkbox /\ ~smokers_checkbox

InRanges(row) ==
    /\ row["region"] \in selected_region
    /\ 10 * bmi_range[1] <= row["bmi"] /\ row["bmi"] <= 10 * bmi_range[2]
    /\ age_range[1] <= row["age"] /\ row["age"] <= age_range[2]

\* The view a run makes with the widgets as they are, but for the region
\* selection and the two checkboxes given.
ViewWith(selected, smokers, nonsmokers) ==
    LET run == RunScript(data1, data2, selected, smokers, nonsmokers,
                         bmi_range, age_range)
    IN  run.frames[run.filtered_data]

\* C1: every row of the filtered view is a row of data, unaltered, under its
\* own label, and satisfies every active predicate: its region is selected,
\* it is a smoker under "smokers only" and a non-smoker under "non-smokers
\* only", and its bmi and age lie in the closed slider ranges.  When no row
\* of data satisfies them the view is empty.
C1_ViewIsSubsetSatisfyingCriteria ==
    /\ \A i \in Rows(View) :
          /\ \E k \in Rows(Data) :
                \A c \in Data.columns \cup {"index"} : View.rows[i][c] = Data.rows[k][c]
          /\ InRanges(View.rows[i])
          /\ SmokersOnly => View.rows[i]["smoker"] = "yes"
          /\ NonSmokersOnly => View.rows[i]["smoker"] = "no"
    /\ (\A k \in Rows(Data) :
            \/ ~InRanges(Data.rows[k])
            \/ SmokersOnly /\ Data.rows[k]["smoker"] # "yes"
            \/ NonSmokersOnly /\ Data.rows[k]["smoker"] # "no")
       => View.rows = <<>>

C1_Witness ==
    /\ SmokersOnly
    /\ bmi_range # BmiDefault
    /\ Len(View.rows) >= 1
    /\ Len(View.rows) < Len(Data.rows)

\* C2: with both checkboxes checked the run warns, applies no smoker filter
\* (the view is the one a run with neither checkbox checked makes), still
\* applies the region, BMI and age filters, and runs to its end: the view has
\* its derived columns.
C2_ConflictYieldsAllWithWarning ==
    (smokers_checkbox /\ nonsmokers_checkbox) =>
        /\ warning
        /\ View = ViewWith(selected_region, FALSE, FALSE)
        /\ \A i \in Rows(View) : InRanges(View.rows[i])
        /\ {"BMI Category", "Age Group"} \subseteq View.columns

C2_Witness ==
    /\ smokers_checkbox /\ nonsmokers_checkbox
    /\ warning
    /\ \E i, j \in Rows(View) :
          View.rows[i]["smoker"] = "yes" /\ View.rows[j]["smoker"] = "no"
    /\ Len(View.rows) < Len(Data.rows)

\* C3: in the filtered view a bmi of 18.5 is classified Normal, 24.9 Normal,
\* 29.9 Overweight, an age of 35 Young Adults and an age of 65 Older Adults.
C3_BoundaryValues ==
    \A i \in Rows(View) :
        /\ View.rows[i]["bmi"] = 185 => View.rows[i]["BMI Category"] = "Normal"
        /\ View.rows[i]["bmi"] = 249 => View.rows[i]["BMI Category"] = "Normal"
        /\ View.rows[i]["bmi"] = 299 => View.rows[i]["BMI Category"] = "Overweight"
        /\ View.rows[i]["age"] = 35 => View.rows[i]["Age Group"] = "Young Adults (18-35)"
        /\ View.rows[i]["age"] = 65 => View.rows[i]["Age Group"] = "Older Adults (51-65)"

\* C4: every row of the filtered view (bmi > 0, age >= 18) has one of the four
\* BMI categories and one of the four age groups, never a missing value.
C4_DerivedCategoriesTotal ==
    \A i \in Rows(View) :
        /\ View.rows[i]["BMI Category"] \in {BmiLabels[k] : k \in DOMAIN BmiLabels}
        /\ View.rows[i]["Age Group"] \in {AgeLabels[k] : k \in DOMAIN AgeLabels}

\* C5, as claimed: with no region selected the filtered view is the view a
\* run with every region selected makes.
C5_EmptyRegionSetMeansAll ==
    selected_region = {} => View = ViewWith(Unique(Data, "region"), smokers_checkbox,
                                            nonsmokers_checkbox)

\* C5, as amended: with no region selected the filtered view has no rows,
\* whatever the other widgets are set to.
C5_EmptyRegionSetYieldsEmptyView ==
    selected_region = {} => View.rows = <<>>

C5_Witness ==
    /\ selected_region = {}
    /\ View.rows = <<>>
    /\ ViewWith(Unique(Data, "region"), smokers_checkbox, nonsmokers_checkbox).rows # <<>>

\* C6: when the filtered view has fewer than two rows or a constant numeric
\* column, no matrix holding NaN is displayed.
C6_NoNaNMatrixExposed ==
    (\/ Len(View.rows) < 2
     \/ \E c \in select_dtypes(View, {"float64", "int64"}) : Cardinality(Unique(View, c)) < 2)
    => ~HasNaN(written)

\* C7: the rows of the filtered view come in the order they have in data:
\* of two rows of the view, the earlier one is the earlier one in data.
C7_OrderPreserved ==
    \A i, j \in Rows(View) :
        i < j => \E k, l \in Rows(Data) :
                    /\ k < l
                    /\ Label(Data, k) = Label(View, i)
                    /\ Label(Data, l) = Label(View, j)

C7_Witness ==
    /\ Len(View.rows) = 2
    /\ Len(Data.rows) = 3
    /\ Label(View, 1) = Label(Data, 1)
    /\ Label(View, 2) = Label(Data, 3)

\* C8: filtering the filtered view again with the same criteria returns the
\* filtered view.
C8_ApplyFiltersIdempotent ==
    Filtered(View, selected_region, smokers_checkbox, nonsmokers_checkbox,
             bmi_range, age_range) = View

C8_Witness ==
    /\ Len(View.rows) >= 2
    /\ Len(View.rows) < Len(Data.rows)
    /\ NonSmokersOnly \/ SmokersOnly
    /\ Filtered(View, selected_region, smokers_checkbox, nonsmokers_checkbox,
                bmi_range, age_range) = View

\* C9: after a run, data is what lines 24-26 built from the loaded frames:
\* the same rows, columns and values; the derived columns are columns of the
\* filtered view only.
C9_SourceNotMutated ==
    /\ Data = MergedData(data1, data2)
    /\ Data.columns = InsuranceColumns \cup HealthcareColumns
    /\ {"BMI Category", "Age Group"} \subseteq View.columns

C9_Witness ==
    /\ smokers_checkbox /\ nonsmokers_checkbox
    /\ Len(View.rows) >= 1
    /\ \A i \in Rows(View) : View.rows[i]["BMI Category"] \in
                                {BmiLabels[k] : k \in DOMAIN BmiLabels}
    /\ \A k \in Rows(Data) : "BMI Category" \notin DOMAIN Data.rows[k]

\* C10: the filtered view holds no row whose bmi is above int(max bmi), the
\* truncated maximum of data, whatever the widgets are set to.
C10_NoRowAboveTruncatedMax ==
    \A i \in Rows(View) : View.rows[i]["bmi"] <= 10 * Truncate(Max(Unique(Data, "bmi")))

C10_Witness ==
    /\ bmi_range[2] = Truncate(Max(Unique(Data, "bmi")))
    /\ \E k \in Rows(Data) :
          /\ Data.rows[k]["bmi"] > 10 * bmi_range[2]
          /\ Data.rows[k]["region"] \in selected_region
          /\ age_range[1] <= Data.rows[k]["age"] /\ Data.rows[k]["age"] <= age_range[2]
          /\ ~smokers_checkbox /\ ~nonsmokers_checkbox
          /\ \A i \in Rows(View) : Label(View, i) # Label(Data, k)

====
